---- MODULE Spec2Model ----
(***************************************************************************)
(* A model of tz-search (src/src/lib.rs): the table loader TzSearch::new,  *)
(* the resolver lookup_pixel / zoom_level_lookup / zone_lookup, the        *)
(* geographic front end TzSearch::lookup and the lazily built singleton of *)
(* the free function lookup.                                               *)
(*                                                                         *)
(* Bytes are 0..255, a u16 is 0..65535.  A u64 is kept as the 8 bytes it   *)
(* was read from (most significant first) because it does not fit the      *)
(* checker's integers; its bits are addressed through U64Bit.              *)
(* Option<T> is a sequence of length 0 (None) or 1 (Some(v)).              *)
(***************************************************************************)
EXTENDS Integers, Sequences, FiniteSets, TLC

\* ------------------------------------------------------------ constants
DEG_PIXELS == 32
OCEAN_INDEX == 65535
\* the number of zoom levels: REV_ZOOM_LEVELS has six tables, levels are 0..6
NumLevels == 6
\* the size in bytes of a Pixmap leaf and of the loader's buffer
PixmapLen == 128
\* the size in bytes of one zoom-level record (u32 key, u16 leaf index)
ZoomRecLen == 6

\* --------------------------------------------------------------- bounds
\* The number of leaf records the loader reads.  The shipped tables have
\* 14356; the model keeps the loop and its bound and reads a small store.
NUM_LEAVES == 3
\* pixel offsets 0..MaxLocal are queried inside each sampled tile
MaxLocal == 2
\* geographic inputs are sampled within GeoWindow grid steps of each edge
GeoWindow == 3
\* concurrent callers of the free function lookup
NumThreads == 3

\* ------------------------------------------------------------ variables
VARIABLES
    \* tables.rs: the (decompressed) embedded tables
    leaves_packed,      \* UNIQUE_LEAVES_PACKED, a sequence of bytes
    rev_zoom_levels,    \* REV_ZOOM_LEVELS, six sequences of bytes (level 5 first)
    \* TzSearch::new
    new_pc,             \* "zoom" | "leaf" | "pixmap" | "done" | "panicked"
    rpos,               \* bytes of leaves_packed consumed by ungz
    buf,                \* the 128 byte buffer of the 'P' arm
    buf_i,              \* i of the 'P' arm's read loop
    leaves,             \* TzSearch.leaves (built so far)
    zoom_levels,        \* TzSearch.zoom_levels, zoom_levels[l + 1] is level l
    \* lookup_pixel and what it calls
    q_pc,               \* "idle" | "zoom_level_lookup" | "zone_lookup" | "returned" | "panicked" | "overflow"
    qx, qy,             \* the pixel queried
    level,              \* the loop variable of lookup_pixel
    zidx,               \* the index in leaves of the zone zone_lookup is called on
    depth,              \* zone_lookup calls on the stack
    searches,           \* zoom_level_lookup calls of this query
    zl_ret,             \* what the last zoom_level_lookup returned, an Option<Option<String>>
    ret,                \* what lookup_pixel returned, an Option<String>
    panic_msg,          \* the message of the panic, "" when none
    \* TzSearch::lookup(lat, long)
    g_pc,               \* "idle" | "assert_lat" | "assert_long" | "convert" | "clamp" | "lookup_pixel" | "panicked"
    lat, long,          \* the f64 arguments (see GeoInputs)
    gx, gy,             \* x, y of TzSearch::lookup, <<>> until computed
    \* the free function lookup: ONCE, SHARED and its callers
    once,               \* "INCOMPLETE" | "RUNNING" | "COMPLETE" | "POISONED"
    shared,             \* SHARED: 0, or 1 for the address of the box
    box_built,          \* whether the boxed TzSearch is fully constructed
    new_calls,          \* how many times TzSearch::new was entered
    t_pc,               \* each caller's position
    t_ptr,              \* each caller's local ptr
    t_sync              \* whether the store to SHARED happens-before the caller's next step

loadVars == <<leaves_packed, rev_zoom_levels, new_pc, rpos, buf, buf_i, leaves, zoom_levels>>
queryVars == <<q_pc, qx, qy, level, zidx, depth, searches, zl_ret, ret>>
geoVars == <<g_pc, lat, long, gx, gy>>
onceVars == <<once, shared, box_built, new_calls, t_pc, t_ptr, t_sync>>
vars == <<loadVars, queryVars, panic_msg, geoVars, onceVars>>

\* ------------------------------------------------------ integer helpers
Pow2(n) == 2 ^ n
Shr(v, n) == v \div Pow2(n)
Bit(v, k) == (v \div Pow2(k)) % 2
Min(a, b) == IF a < b THEN a ELSE b
Max(a, b) == IF a > b THEN a ELSE b

\* the byte whose bit x is f[x], x in 0..7
ByteOfBits(f) ==
    f[0] + 2 * f[1] + 4 * f[2] + 8 * f[3] + 16 * f[4] + 32 * f[5] + 64 * f[6] + 128 * f[7]

RECURSIVE Flatten(_)
Flatten(ss) == IF ss = <<>> THEN <<>> ELSE Head(ss) \o Flatten(Tail(ss))

\* s[a+1 .. b] of a sequence, for 0-based half-open [a, b)
Slice(s, a, b) == [k \in 1..(b - a) |-> s[a + k]]

\* ------------------------------------------------- big-endian decoding
\* byteorder's read_u16::<BigEndian> / read_u32::<BigEndian> at 0-based offset p
ReadU16BE(s, p) == s[p + 1] * 256 + s[p + 2]
ReadU32BE(s, p) == ((s[p + 1] * 256 + s[p + 2]) * 256 + s[p + 3]) * 256 + s[p + 4]
\* read_u64::<BigEndian>: the value is kept as its 8 bytes, first byte most significant
ReadU64BE(s, p) == Slice(s, p, p + 8)
\* bits & (1 << k) != 0 for a u64 kept as 8 bytes
U64Bit(bits, k) == Bit(bits[8 - (k \div 8)], k % 8)

\* ---------------------------------------------------------- TileKey::new
TileKeyNew(size, x, y) ==
    (size % 8) * Pow2(28) + (y % Pow2(14)) * Pow2(14) + (x % Pow2(14))

\* `v as u16`
AsU16(v) == v % 65536

\* ------------------------------------------------ the tables of a run
\* What follows up to Scenarios writes table files in the format
\* TzSearch::new reads; Init draws the embedded tables from them.
U16Bytes(v) == << v \div 256, v % 256 >>
U32Bytes(v) == << v \div Pow2(24), (v \div Pow2(16)) % 256, (v \div 256) % 256, v % 256 >>
NameA == <<65>>
NameB == <<66>>
NameBC == <<66, 67>>
NameZ == <<90>>
RecS(name) == <<83>> \o name \o <<0>>
\* the 8 bytes of the u64 whose set bits are the numbers in S
MaskBytes(S) ==
    [j \in 1..8 |-> ByteOfBits([b \in 0..7 |-> IF (8 * (8 - j) + b) \in S THEN 1 ELSE 0])]
Rec2(i0, i1, S) == <<50>> \o U16Bytes(i0) \o U16Bytes(i1) \o MaskBytes(S)
\* cells[c] is the u16 of cell c = row * 8 + column
RecP(cells) ==
    <<80>> \o [k \in 1..PixmapLen |->
                 IF k % 2 = 1 THEN cells[(k - 1) \div 2] \div 256
                              ELSE cells[(k - 1) \div 2] % 256]
ZoomRec(key, idx) == U32Bytes(key) \o U16Bytes(idx)

\* a leaves file: the given records, then StaticZone "Z" up to NUM_LEAVES records
PadRecs == [k \in 1..(NUM_LEAVES - 3) |-> RecS(NameZ)]
LeavesFile(recs) == Flatten(recs \o PadRecs)
\* the same with the padding first, so that the last given record ends the file
LeavesFileTail(recs) == Flatten(PadRecs \o recs)

\* six zoom tables in the order of REV_ZOOM_LEVELS (level 5 first) from
\* tab[l], the sequence of <<key, idx>> of level l
RevZoom(tab) ==
    [k \in 1..NumLevels |->
        Flatten([r \in 1..Len(tab[NumLevels - k]) |->
                    ZoomRec(tab[NumLevels - k][r][1], tab[NumLevels - k][r][2])])]
NoTiles == [l \in 0..(NumLevels - 1) |-> <<>>]
\* level 5 tiles (0,0) and (1,0), both resolving leaf idx: they cover every
\* sampled pixel
CoverAll(idx) ==
    [NoTiles EXCEPT ![5] = << <<TileKeyNew(5, 0, 0), idx>>, <<TileKeyNew(5, 1, 0), idx>> >>]

\* the members of a set of integers in ascending order
RECURSIVE SortedSeq(_)
SortedSeq(S) ==
    IF S = {} THEN <<>>
    ELSE LET m == CHOOSE v \in S : \A w \in S : v <= w
         IN <<m>> \o SortedSeq(S \ {m})

Tables(leavesBytes, tab) == [leaves |-> leavesBytes, zoom |-> RevZoom(tab)]

ThreeStatic == << RecS(NameA), RecS(NameB), RecS(NameZ) >>
\* a pixmap: ocean but for (x=1, y=0) -> leaf 0 and (x=0, y=1) -> leaf 1
IslandCells == [c \in 0..63 |-> IF c = 1 THEN 0 ELSE IF c = 8 THEN 1 ELSE OCEAN_INDEX]

\* (1) one tile around the origin at each level of a set of levels; level l
\* resolves leaf l % 3, and leaf 2 is the island pixmap
LevelScenarios ==
    { Tables(LeavesFile(<< RecS(NameA), RecS(NameB), RecP(IslandCells) >>),
             [l \in 0..(NumLevels - 1) |->
                 IF l \in L THEN << <<TileKeyNew(l, 0, 0), l % 3>> >> ELSE <<>>])
      : L \in SUBSET (0..(NumLevels - 1)) }

\* (2) level 0 tables holding any subset of five tiles, ascending; two tables
\* that are not ascending or repeat a key
Level0Tiles == { <<0, 0>>, <<1, 0>>, <<32, 0>>, <<0, 1>>, <<1, 1>> }
Level0Keys == { TileKeyNew(0, t[1], t[2]) : t \in Level0Tiles }
KeyList(ks) == [r \in 1..Len(ks) |-> <<ks[r], r % 2>>]
SearchScenarios ==
    { Tables(LeavesFile(ThreeStatic), [NoTiles EXCEPT ![0] = KeyList(SortedSeq(K))])
      : K \in SUBSET Level0Keys }
    \cup
    { Tables(LeavesFile(ThreeStatic), [NoTiles EXCEPT ![0] = KeyList(ks)])
      : ks \in { << TileKeyNew(0, 1, 0), TileKeyNew(0, 0, 0) >>,
                 << TileKeyNew(0, 0, 0), TileKeyNew(0, 0, 0), TileKeyNew(0, 1, 0) >> } }

\* (3) a one-bit tile over leaves 1 and 2 with a range of bitmasks
MaskSets == { {k} : k \in {0, 1, 8, 9, 17, 63} } \cup { {}, {1, 16}, {2, 8, 10}, 0..63 }
MaskScenarios ==
    { Tables(LeavesFile(<< Rec2(1, 2, S), RecS(NameA), RecS(NameB) >>), CoverAll(0))
      : S \in MaskSets }

\* (4) pixmaps: islands, a lake, and cells whose two bytes differ
LakeCells == [c \in 0..63 |-> IF c = 17 THEN OCEAN_INDEX ELSE IF c % 2 = 0 THEN 1 ELSE 2]
MixedCells ==
    [c \in 0..63 |-> IF c = 0 THEN 1 ELSE IF c = 1 THEN 256 ELSE IF c = 8 THEN 255
                     ELSE IF c = 9 THEN 65280 ELSE IF c = 2 THEN 2 ELSE OCEAN_INDEX]
PixmapScenarios ==
    { Tables(LeavesFile(<< RecP(cells), RecS(NameA), RecS(NameB) >>), CoverAll(0))
      : cells \in { [c \in 0..63 |-> IF IslandCells[c] = OCEAN_INDEX THEN OCEAN_INDEX
                                     ELSE IslandCells[c] + 1],
                    LakeCells, MixedCells } }

\* (5) reference chains: through every leaf, through a one-bit tile and a
\* pixmap, and cyclic ones
ChainRecs == [k \in 1..NUM_LEAVES |-> IF k < NUM_LEAVES THEN Rec2(k, k, {1}) ELSE RecS(NameA)]
ChainScenarios ==
    { Tables(Flatten(ChainRecs), CoverAll(0)) }
    \cup
    { Tables(LeavesFile(recs), CoverAll(0))
      : recs \in { << Rec2(1, 2, {1, 8}), RecP([c \in 0..63 |-> 2]), RecS(NameA) >>,
                   << Rec2(0, 1, {1}), RecS(NameA), RecS(NameB) >>,
                   << Rec2(1, 2, {1}), RecP([c \in 0..63 |-> IF c < 8 THEN 0 ELSE 2]), RecS(NameA) >> } }

\* (6) corrupt tables: leaf indices out of range, a truncated leaves file, an
\* unknown tag, a name that is not UTF-8, a zoom table of a wrong length
BadIndexScenarios ==
    { Tables(LeavesFile(ThreeStatic), CoverAll(NUM_LEAVES)),
      Tables(LeavesFile(<< Rec2(1, NUM_LEAVES, {1}), RecS(NameA), RecS(NameB) >>), CoverAll(0)),
      Tables(LeavesFile(<< RecP([c \in 0..63 |-> IF c = 0 THEN NUM_LEAVES ELSE 1]),
                           RecS(NameA), RecS(NameB) >>), CoverAll(0)) }
TruncBase12 == LeavesFileTail(<< RecS(NameA), Rec2(1, 2, {1}), RecS(NameBC) >>)
TruncBaseP == LeavesFileTail(<< RecS(NameA), RecS(NameB), RecP(LakeCells) >>)
\* how many bytes are cut off the end of the file
CutsP == (1..3) \cup {64, 127, 128, 129, 130}
TruncScenarios ==
    { Tables(SubSeq(TruncBase12, 1, Len(TruncBase12) - c), CoverAll(0)) : c \in 1..Len(TruncBase12) }
    \cup
    { Tables(SubSeq(TruncBaseP, 1, Len(TruncBaseP) - c), CoverAll(0)) : c \in CutsP }
MalformedScenarios ==
    { Tables(LeavesFile(<< RecS(NameA), <<88, 0>>, RecS(NameB) >>), CoverAll(0)),
      Tables(LeavesFile(<< RecS(<<255>>), RecS(NameA), RecS(NameB) >>), CoverAll(0)),
      Tables(Flatten(ThreeStatic) \o RecS(NameZ) \o Flatten(PadRecs), CoverAll(0)),
      [leaves |-> LeavesFile(ThreeStatic),
       zoom |-> [RevZoom(CoverAll(0)) EXCEPT ![3] = <<0, 0, 0, 0, 0>>]] }

Scenarios ==
    LevelScenarios \cup SearchScenarios \cup MaskScenarios \cup PixmapScenarios
    \cup ChainScenarios \cup BadIndexScenarios \cup TruncScenarios \cup MalformedScenarios

\* the pixels queried: offsets 0..MaxLocal in the tiles at 0, 8 and 256
PixelXs == { b + l : b \in {0, 8, 256}, l \in 0..MaxLocal }
PixelYs == { b + l : b \in {0, 8}, l \in 0..MaxLocal }

\* ---------------------------------------------------------- TzSearch::new
StaticZone(name) == [kind |-> "StaticZone", name |-> name]
OneBitTile(idxs, rows) == [kind |-> "OneBitTile", idxs |-> idxs, rows |-> rows]
Pixmap(p) == [kind |-> "Pixmap", p |-> p]

\* one zoom table: slurp.len() / 6 records of a big-endian u32 key and u16 index
DecodeZoom(slurp) ==
    [r \in 1..(Len(slurp) \div ZoomRecLen) |->
        [tile |-> ReadU32BE(slurp, ZoomRecLen * (r - 1)),
         idx |-> ReadU16BE(slurp, ZoomRecLen * (r - 1) + 4)]]

\* the tables are pushed in the order of REV_ZOOM_LEVELS.iter().rev()
NewZoomLevels ==
    /\ new_pc = "zoom"
    /\ IF \E k \in 1..NumLevels : Len(rev_zoom_levels[k]) % ZoomRecLen # 0
       THEN /\ new_pc' = "panicked"
            /\ panic_msg' = "assertion failed: slurp.len() % 6 == 0"
            /\ UNCHANGED zoom_levels
       ELSE /\ new_pc' = "leaf"
            /\ zoom_levels' = [l \in 1..NumLevels |-> DecodeZoom(rev_zoom_levels[NumLevels + 1 - l])]
            /\ UNCHANGED panic_msg
    /\ UNCHANGED <<leaves_packed, rev_zoom_levels, rpos, buf, buf_i, leaves>>
    /\ UNCHANGED <<queryVars, geoVars, onceVars>>

AtLeaf == new_pc = "leaf" /\ Len(leaves) < NUM_LEAVES
Avail == Len(leaves_packed) - rpos
Tag == leaves_packed[rpos + 1]
NewPanic(msg) ==
    /\ new_pc' = "panicked"
    /\ panic_msg' = msg
    /\ UNCHANGED <<leaves_packed, rev_zoom_levels, rpos, buf, buf_i, leaves, zoom_levels>>
    /\ UNCHANGED <<queryVars, geoVars, onceVars>>
NewPush(zone, consumed) ==
    /\ leaves' = Append(leaves, zone)
    /\ rpos' = rpos + consumed
    /\ new_pc' = "leaf"
    /\ UNCHANGED <<leaves_packed, rev_zoom_levels, zoom_levels, panic_msg>>
    /\ UNCHANGED <<queryVars, geoVars, onceVars>>

\* read_u8 at the end of the stream
NewLeafEof ==
    /\ AtLeaf
    /\ Avail = 0
    /\ NewPanic("UnexpectedEof")

\* BufRead::read_until(0, ..) from 0-based offset p: the offset after the
\* delimiter, or the end of the stream when there is none
RECURSIVE ReadUntil0(_, _)
ReadUntil0(s, p) ==
    IF p >= Len(s) THEN Len(s)
    ELSE IF s[p + 1] = 0 THEN p + 1
    ELSE ReadUntil0(s, p + 1)
\* String::from_utf8 succeeds.  Exact for the names the model reads: ASCII
\* bytes and 0xFF, which no UTF-8 text contains.
Utf8Valid(name) == \A k \in 1..Len(name) : name[k] < 128

NewLeafStatic ==
    /\ AtLeaf
    /\ Avail > 0
    /\ Tag = 83
    /\ LET end == ReadUntil0(leaves_packed, rpos + 1)
           read == Slice(leaves_packed, rpos + 1, end)
           zone_name == IF read # <<>> /\ read[Len(read)] = 0
                        THEN SubSeq(read, 1, Len(read) - 1)
                        ELSE read
       IN IF Utf8Valid(zone_name)
          THEN NewPush(StaticZone(zone_name), end - rpos) /\ UNCHANGED <<buf, buf_i>>
          ELSE NewPanic("FromUtf8Error")

\* DecodeRows with a fault: bit x * 8 + y is read for column x of row y
DecodeRowsTransposed(bits) ==
    [y \in 0..7 |-> ByteOfBits([x \in 0..7 |-> Bit(bits[8 - x], y)])]

\* rows[y] of the '2' arm
RowOfBits(bits, y) == ByteOfBits([x \in 0..7 |-> U64Bit(bits, y * 8 + x)])
DecodeRows(bits) == [y \in 0..7 |-> RowOfBits(bits, y)]

NewLeafOneBit ==
    /\ AtLeaf
    /\ Avail > 0
    /\ Tag = 50
    /\ IF Avail - 1 < 12
       THEN NewPanic("UnexpectedEof")
       ELSE LET idx == [k \in 0..1 |-> ReadU16BE(leaves_packed, rpos + 1 + 2 * k)]
                bits == ReadU64BE(leaves_packed, rpos + 5)
            IN NewPush(OneBitTile(idx, DecodeRows(bits)), 13) /\ UNCHANGED <<buf, buf_i>>

NewLeafPixmap ==
    /\ AtLeaf
    /\ Avail > 0
    /\ Tag = 80
    /\ new_pc' = "pixmap"
    /\ buf_i' = 0
    /\ rpos' = rpos + 1
    /\ UNCHANGED <<leaves_packed, rev_zoom_levels, buf, leaves, zoom_levels, panic_msg>>
    /\ UNCHANGED <<queryVars, geoVars, onceVars>>

\* how many bytes one read of the loop may return: all that is left to read,
\* or a short read
ReadSizes(most) == { n \in {1, 50, most} : n <= most }
\* one iteration of `while i < 128 { i += ungz.read(&mut buf[i..]).unwrap() }`
\* with bytes left in the stream; the leaf is pushed when the loop ends
NewPixmapRead ==
    /\ new_pc = "pixmap"
    /\ buf_i < PixmapLen
    /\ Avail > 0
    /\ \E n \in ReadSizes(Min(Avail, PixmapLen - buf_i)) :
         LET filled == [k \in 0..(PixmapLen - 1) |->
                           IF k >= buf_i /\ k < buf_i + n
                           THEN leaves_packed[rpos + (k - buf_i) + 1]
                           ELSE buf[k]]
         IN /\ buf' = filled
            /\ buf_i' = buf_i + n
            /\ rpos' = rpos + n
            /\ IF buf_i + n < PixmapLen
               THEN new_pc' = "pixmap" /\ UNCHANGED leaves
               ELSE new_pc' = "leaf" /\ leaves' = Append(leaves, Pixmap(filled))
    /\ UNCHANGED <<leaves_packed, rev_zoom_levels, zoom_levels, panic_msg>>
    /\ UNCHANGED <<queryVars, geoVars, onceVars>>

\* the same iteration at the end of the stream: read returns Ok(0) and i
\* does not move
NewPixmapReadEof ==
    /\ new_pc = "pixmap"
    /\ buf_i < PixmapLen
    /\ Avail = 0
    /\ buf_i' = buf_i + 0
    /\ UNCHANGED <<leaves_packed, rev_zoom_levels, new_pc, rpos, buf, leaves, zoom_levels>>
    /\ UNCHANGED <<queryVars, panic_msg, geoVars, onceVars>>

NewLeafUnknown ==
    /\ AtLeaf
    /\ Avail > 0
    /\ Tag \notin {83, 50, 80}
    /\ NewPanic("unknown leaf type")

\* the loop has run NUM_LEAVES times: TzSearch { zoom_levels, leaves }
NewReturn ==
    /\ new_pc = "leaf"
    /\ Len(leaves) = NUM_LEAVES
    /\ new_pc' = "done"
    /\ UNCHANGED <<leaves_packed, rev_zoom_levels, rpos, buf, buf_i, leaves, zoom_levels>>
    /\ UNCHANGED <<queryVars, panic_msg, geoVars, onceVars>>

New ==
    \/ NewZoomLevels
    \/ NewLeafEof
    \/ NewLeafStatic
    \/ NewLeafOneBit
    \/ NewLeafPixmap
    \/ NewPixmapRead
    \/ NewPixmapReadEof
    \/ NewLeafUnknown
    \/ NewReturn

\* ------------------------------------------------------------ the resolver
\* zone_lookup calls the model follows before it reports a stack overflow
MaxDepth == NUM_LEAVES + 2

QueryFrame == UNCHANGED <<loadVars, geoVars, onceVars>>

\* lookup_pixel(x, y) is entered: `for level in (0..6).rev()`
LookupPixel ==
    /\ new_pc = "done"
    /\ q_pc \in {"idle", "returned"}
    /\ \E x \in PixelXs, y \in PixelYs :
         /\ qx' = x
         /\ qy' = y
    /\ q_pc' = "zoom_level_lookup"
    /\ level' = NumLevels - 1
    /\ searches' = 0
    /\ depth' = 0
    /\ zidx' = 0
    /\ zl_ret' = <<>>
    /\ ret' = <<>>
    /\ UNCHANGED panic_msg
    /\ QueryFrame

\* slice::binary_search_by(|t| t.tile.cmp(&tk)) followed by
\* unwrap_or_else(|x| x): the 0-based position found, or the insertion point
RECURSIVE BinarySearchBy(_, _, _, _)
BinarySearchBy(tiles, tk, base, lim) ==
    IF lim = 0 THEN base
    ELSE LET ix == base + Shr(lim, 1)
         IN IF tiles[ix + 1].tile = tk THEN ix
            ELSE IF tiles[ix + 1].tile < tk
                 THEN BinarySearchBy(tiles, tk, ix + 1, Shr(lim - 1, 1))
                 ELSE BinarySearchBy(tiles, tk, base, Shr(lim, 1))

\* the tile key lookup_pixel builds for a level
LevelKey(l, x, y) == TileKeyNew(l, AsU16(Shr(x, 3 + l)), AsU16(Shr(y, 3 + l)))
\* ZoomHit with a fault: the record at the insertion point is taken without
\* comparing its key
ZoomHitAnyKey(tiles, tk) == BinarySearchBy(tiles, tk, 0, Len(tiles)) < Len(tiles)

\* zl.tiles.get(pos) is Some(tl) with tl.tile == tk
ZoomPos(tiles, tk) == BinarySearchBy(tiles, tk, 0, Len(tiles))
ZoomHit(tiles, tk) ==
    LET pos == ZoomPos(tiles, tk)
    IN pos < Len(tiles) /\ tiles[pos + 1].tile = tk

\* InLeaves with a fault: the bound is off by one
InLeavesOffByOne(idx) == idx <= Len(leaves)

\* self.leaves[idx] panics when idx is not an index of leaves
InLeaves(idx) == idx < Len(leaves)
QueryPanic ==
    /\ q_pc' = "panicked"
    /\ panic_msg' = "index out of bounds"
    /\ UNCHANGED <<qx, qy, level, zidx, depth, zl_ret, ret>>
\* zone_lookup(&self.leaves[idx], x, y, tk) is called
CallZoneLookup(idx) ==
    IF InLeaves(idx)
    THEN /\ q_pc' = "zone_lookup"
         /\ zidx' = idx
         /\ depth' = depth + 1
         /\ UNCHANGED <<qx, qy, level, zl_ret, ret, panic_msg>>
    ELSE QueryPanic /\ UNCHANGED depth

\* one iteration of lookup_pixel's loop whose zoom_level_lookup finds the key
ZoomLevelLookupHit ==
    /\ q_pc = "zoom_level_lookup"
    /\ LET tiles == zoom_levels[level + 1]
           tk == LevelKey(level, qx, qy)
       IN /\ ZoomHit(tiles, tk)
          /\ CallZoneLookup(tiles[ZoomPos(tiles, tk) + 1].idx)
    /\ searches' = searches + 1
    /\ QueryFrame

\* one iteration whose zoom_level_lookup returns None: the next level, or
\* lookup_pixel's final None
ZoomLevelLookupMiss ==
    /\ q_pc = "zoom_level_lookup"
    /\ ~ZoomHit(zoom_levels[level + 1], LevelKey(level, qx, qy))
    /\ searches' = searches + 1
    /\ zl_ret' = <<>>
    /\ IF level > 0
       THEN /\ level' = level - 1
            /\ UNCHANGED <<q_pc, ret>>
       ELSE /\ q_pc' = "returned"
            /\ ret' = <<>>
            /\ UNCHANGED level
    /\ UNCHANGED <<qx, qy, zidx, depth, panic_msg>>
    /\ QueryFrame

\* ReturnMatched with a fault: a match that resolves to no timezone falls
\* through to the next level
ReturnMatchedFallThrough(r) ==
    /\ IF r = <<>> /\ level > 0
       THEN /\ q_pc' = "zoom_level_lookup"
            /\ level' = level - 1
            /\ zl_ret' = <<>>
            /\ depth' = 0
            /\ UNCHANGED ret
       ELSE /\ q_pc' = "returned"
            /\ zl_ret' = <<r>>
            /\ ret' = r
            /\ UNCHANGED <<level, depth>>
    /\ UNCHANGED <<qx, qy, zidx, searches, panic_msg>>
    /\ QueryFrame

\* zone_lookup returns Some(r), zoom_level_lookup passes it on and
\* lookup_pixel returns r
ReturnMatched(r) ==
    /\ q_pc' = "returned"
    /\ zl_ret' = <<r>>
    /\ ret' = r
    /\ UNCHANGED <<qx, qy, level, zidx, depth, searches, panic_msg>>
    /\ QueryFrame

Zone == leaves[zidx + 1]

ZoneLookupStatic ==
    /\ q_pc = "zone_lookup"
    /\ Zone.kind = "StaticZone"
    /\ ReturnMatched(<<Zone.name>>)

\* PixmapIndex with a fault: the two bytes are read little-endian
PixmapIndexLittleEndian(p, x, y) == p[2 * ((y % 8) * 8 + (x % 8)) + 1] * 256 + p[2 * ((y % 8) * 8 + (x % 8))]

\* the child a OneBitTile selects for a pixel
OneBitChild(idxs, rows, x, y) ==
    IF Bit(rows[y % 8], x % 8) # 0 THEN idxs[1] ELSE idxs[0]
\* the leaf index a Pixmap holds for a pixel
PixmapIndex(p, x, y) ==
    LET xx == x % 8
        yy == y % 8
        i == 2 * (yy * 8 + xx)
    IN p[i] * 256 + p[i + 1]

\* NextLeaf with a fault: the recursion is on the zone itself
NextLeafSelf(z) == z

\* the index of the leaf zone_lookup recurses into from leaves[z]
NextLeaf(z) ==
    LET zone == leaves[z + 1]
    IN IF zone.kind = "OneBitTile"
       THEN OneBitChild(zone.idxs, zone.rows, qx, qy)
       ELSE PixmapIndex(zone.p, qx, qy)

ZoneLookupOneBit ==
    /\ q_pc = "zone_lookup"
    /\ Zone.kind = "OneBitTile"
    /\ depth < MaxDepth
    /\ CallZoneLookup(NextLeaf(zidx))
    /\ UNCHANGED searches
    /\ QueryFrame

ZoneLookupPixmapOcean ==
    /\ q_pc = "zone_lookup"
    /\ Zone.kind = "Pixmap"
    /\ PixmapIndex(Zone.p, qx, qy) = OCEAN_INDEX
    /\ ReturnMatched(<<>>)

ZoneLookupPixmap ==
    /\ q_pc = "zone_lookup"
    /\ Zone.kind = "Pixmap"
    /\ PixmapIndex(Zone.p, qx, qy) # OCEAN_INDEX
    /\ depth < MaxDepth
    /\ CallZoneLookup(NextLeaf(zidx))
    /\ UNCHANGED searches
    /\ QueryFrame

\* a reference cycle: the recursion does not end, the stack overflows
ZoneLookupOverflow ==
    /\ q_pc = "zone_lookup"
    /\ Zone.kind # "StaticZone"
    /\ Zone.kind = "Pixmap" => PixmapIndex(Zone.p, qx, qy) # OCEAN_INDEX
    /\ depth >= MaxDepth
    /\ q_pc' = "overflow"
    /\ UNCHANGED <<qx, qy, level, zidx, depth, searches, zl_ret, ret, panic_msg>>
    /\ QueryFrame

Query ==
    \/ LookupPixel
    \/ ZoomLevelLookupHit
    \/ ZoomLevelLookupMiss
    \/ ZoneLookupStatic
    \/ ZoneLookupOneBit
    \/ ZoneLookupPixmapOcean
    \/ ZoneLookupPixmap
    \/ ZoneLookupOverflow

\* ------------------------------------------------------- specifications
NoBuf == [k \in 0..(PixmapLen - 1) |-> 0]
LoadIdle ==
    /\ leaves_packed = <<>>
    /\ rev_zoom_levels = <<>>
    /\ new_pc = "idle"
    /\ rpos = 0
    /\ buf = <<>>
    /\ buf_i = 0
    /\ leaves = <<>>
    /\ zoom_levels = <<>>
QueryIdle ==
    /\ q_pc = "idle"
    /\ qx = 0
    /\ qy = 0
    /\ level = 0
    /\ zidx = 0
    /\ depth = 0
    /\ searches = 0
    /\ zl_ret = <<>>
    /\ ret = <<>>
GeoIdle ==
    /\ g_pc = "idle"
    /\ lat = [k |-> "num", v |-> 0]
    /\ long = [k |-> "num", v |-> 0]
    /\ gx = <<>>
    /\ gy = <<>>
OnceIdle ==
    /\ once = "INCOMPLETE"
    /\ shared = 0
    /\ box_built = FALSE
    /\ new_calls = 0
    /\ t_pc = <<>>
    /\ t_ptr = <<>>
    /\ t_sync = <<>>

\* TzSearch::new() on one of the table sets, then any number of lookup_pixel
Init ==
    /\ \E sc \in Scenarios :
         /\ leaves_packed = sc.leaves
         /\ rev_zoom_levels = sc.zoom
    /\ new_pc = "zoom"
    /\ rpos = 0
    /\ buf = NoBuf
    /\ buf_i = 0
    /\ leaves = <<>>
    /\ zoom_levels = <<>>
    /\ QueryIdle
    /\ panic_msg = ""
    /\ GeoIdle
    /\ OnceIdle

Next ==
    \/ New
    \/ Query

Spec == Init /\ [][Next]_vars

\* ------------------------------------------------ the format, as specified
\* The leaves file read by the format alone: 'S' name NUL, '2' and 12 bytes,
\* 'P' and 128 bytes.  FmtLen(p) is the length of the complete record at
\* 0-based offset p, 0 when there is none.
FmtNul(p) == { q \in (p + 2)..Len(leaves_packed) : leaves_packed[q] = 0 }
FmtLen(p) ==
    IF p >= Len(leaves_packed) THEN 0
    ELSE IF leaves_packed[p + 1] = 83
         THEN IF FmtNul(p) = {} THEN 0
              ELSE (CHOOSE q \in FmtNul(p) : \A r \in FmtNul(p) : q <= r) - p
    ELSE IF leaves_packed[p + 1] = 50
         THEN IF p + 13 <= Len(leaves_packed) THEN 13 ELSE 0
    ELSE IF leaves_packed[p + 1] = 80
         THEN IF p + 129 <= Len(leaves_packed) THEN 129 ELSE 0
    ELSE 0
\* the offset of record i (0-based) when the records before it are complete
RECURSIVE FmtStart(_)
FmtStart(i) == IF i = 0 THEN 0 ELSE FmtStart(i - 1) + FmtLen(FmtStart(i - 1))
\* the complete records at the head of the file, NUM_LEAVES at most
RECURSIVE FmtCount(_, _)
FmtCount(p, n) ==
    IF n = NUM_LEAVES \/ FmtLen(p) = 0 THEN n ELSE FmtCount(p + FmtLen(p), n + 1)
\* the file ends before NUM_LEAVES complete records: between two records, or
\* inside an 'S', '2' or 'P' record
Truncated ==
    LET n == FmtCount(0, 0)
        e == FmtStart(n)
    IN /\ n < NUM_LEAVES
       /\ e < Len(leaves_packed) => leaves_packed[e + 1] \in {83, 50, 80}

\* ascending by tile key, no key twice
SortedTiles(tiles) ==
    \A i, j \in 1..Len(tiles) : i < j => tiles[i].tile < tiles[j].tile
SortedTables == \A l \in 1..NumLevels : SortedTiles(zoom_levels[l])

\* the leaf indices leaf z refers to
Refs(z) ==
    LET zone == leaves[z + 1]
    IN IF zone.kind = "OneBitTile" THEN { zone.idxs[0], zone.idxs[1] }
       ELSE IF zone.kind = "Pixmap"
            THEN { zone.p[2 * c] * 256 + zone.p[2 * c + 1] : c \in 0..63 } \ {OCEAN_INDEX}
       ELSE {}
LeafIds == 0..(Len(leaves) - 1)
ZoomRefs ==
    UNION { { zoom_levels[l][r].idx : r \in 1..Len(zoom_levels[l]) } : l \in 1..NumLevels }
\* every index a table holds is an index of leaves
ValidRefs ==
    /\ ZoomRefs \subseteq LeafIds
    /\ \A z \in LeafIds : Refs(z) \subseteq LeafIds
\* the leaves reached from the leaves of S in at most n references
RECURSIVE Reach(_, _)
Reach(S, n) ==
    IF n = 0 THEN S
    ELSE Reach(S \cup UNION { Refs(z) \cap LeafIds : z \in S }, n - 1)
\* no leaf is reached from what it refers to
AcyclicRefs ==
    \A z \in LeafIds : z \notin Reach(Refs(z) \cap LeafIds, Len(leaves))
Loaded == new_pc = "done"

\* the result of resolving leaf z at the pixel queried (spec 4.5), following
\* at most n references
RECURSIVE Resolution(_, _)
Resolution(z, n) ==
    LET zone == leaves[z + 1]
        cell == (qy % 8) * 8 + (qx % 8)
    IN IF zone.kind = "StaticZone" THEN <<zone.name>>
       ELSE IF n = 0 THEN <<"?">>
       ELSE IF zone.kind = "OneBitTile"
            THEN Resolution(zone.idxs[Bit(zone.rows[qy % 8], qx % 8)], n - 1)
       ELSE IF zone.p[2 * cell] * 256 + zone.p[2 * cell + 1] = OCEAN_INDEX THEN <<>>
       ELSE Resolution(zone.p[2 * cell] * 256 + zone.p[2 * cell + 1], n - 1)

\* the packed key of the tile of level l that holds the pixel queried
ClaimKey(l) == l * Pow2(28) + Shr(qy, 3 + l) * Pow2(14) + Shr(qx, 3 + l)
HasKey(l) == \E r \in 1..Len(zoom_levels[l + 1]) : zoom_levels[l + 1][r].tile = ClaimKey(l)
KeyLeaf(l) ==
    zoom_levels[l + 1][CHOOSE r \in 1..Len(zoom_levels[l + 1]) :
                           zoom_levels[l + 1][r].tile = ClaimKey(l)].idx
\* the levels whose table holds the tile of the pixel queried
MatchLevels == { l \in 0..(NumLevels - 1) : HasKey(l) }
\* a tile of level l is 8 * 2^l pixels wide
TileSide(l) == 8 * Pow2(l)
FinestMatch == CHOOSE l \in MatchLevels : \A k \in MatchLevels : TileSide(l) <= TileSide(k)
HighestMatch == CHOOSE l \in MatchLevels : \A k \in MatchLevels : k <= l

\* C1, as stated: lookup_pixel returns the resolution of the leaf of the
\* finest level (the one with the smallest tiles) whose table holds the
\* pixel's tile key, and None when no level holds it.
C1_FinestLevelWins ==
    (q_pc = "returned" /\ SortedTables) =>
        IF MatchLevels = {} THEN ret = <<>>
        ELSE ret = Resolution(KeyLeaf(FinestMatch), NUM_LEAVES)

\* C1, amended: lookup_pixel scans levels 5 down to 0 and returns the
\* resolution of the leaf of the highest-numbered level whose table holds the
\* pixel's tile key (the level with the largest tiles); it searches no
\* lower-numbered level after that match, also when the match resolves to no
\* timezone, and it returns None after six searches when no level matches.
C1_HighestLevelWins ==
    (q_pc = "returned" /\ SortedTables) =>
        IF MatchLevels = {}
        THEN ret = <<>> /\ zl_ret = <<>> /\ searches = NumLevels
        ELSE /\ ret = Resolution(KeyLeaf(HighestMatch), NUM_LEAVES)
             /\ zl_ret = <<ret>>
             /\ level = HighestMatch
             /\ searches = NumLevels - HighestMatch

\* two levels hold the pixel's tile, the higher one resolved to no timezone
\* and was returned although the lower one resolves to a zone
C1_Witness ==
    /\ q_pc = "returned"
    /\ SortedTables
    /\ Cardinality(MatchLevels) >= 2
    /\ zl_ret = << <<>> >>
    /\ ret = <<>>
    /\ Resolution(KeyLeaf(FinestMatch), NUM_LEAVES) = <<NameB>>

\* C9: on a table ascending by key without duplicates, zoom_level_lookup
\* matches exactly when a record has the key queried and then resolves that
\* record's leaf; otherwise it returns None, whatever the insertion point.
C9_ExactKeySearch ==
    [][(q_pc = "zoom_level_lookup" /\ SortedTiles(zoom_levels[level + 1])) =>
         IF HasKey(level)
         THEN IF KeyLeaf(level) < NUM_LEAVES
              THEN q_pc' = "zone_lookup" /\ zidx' = KeyLeaf(level) /\ depth' = 1
              ELSE q_pc' = "panicked"
         ELSE /\ zl_ret' = <<>>
              /\ q_pc' \in {"zoom_level_lookup", "returned"}
              /\ IF level > 0 THEN level' = level - 1 ELSE ret' = <<>>]_vars

\* the key queried is greater than every key of a table that is not empty,
\* and the search returned None
C9_Witness ==
    /\ q_pc = "returned"
    /\ level = 0
    /\ zl_ret = <<>>
    /\ Len(zoom_levels[1]) >= 2
    /\ SortedTiles(zoom_levels[1])
    /\ \A r \in 1..Len(zoom_levels[1]) : zoom_levels[1][r].tile < ClaimKey(0)

\* C10: when every index is valid and the references are acyclic, zone_lookup
\* makes at most NUM_LEAVES recursive calls and ends at a name or at the ocean
\* sentinel, and a query makes at most six table searches.
C10_BoundedQuery ==
    (Loaded /\ ValidRefs /\ AcyclicRefs) =>
        /\ q_pc \notin {"panicked", "overflow"}
        /\ depth - 1 <= NUM_LEAVES
        /\ searches <= NumLevels
        /\ q_pc = "returned" /\ zl_ret # <<>> =>
               \/ zl_ret = << <<>> >>
               \/ \E z \in LeafIds : leaves[z + 1].kind = "StaticZone" /\ zl_ret = << <<leaves[z + 1].name>> >>

\* a chain through every leaf was followed to its StaticZone
C10_Witness ==
    /\ Loaded /\ ValidRefs /\ AcyclicRefs
    /\ q_pc = "returned"
    /\ depth = NUM_LEAVES
    /\ ret = <<NameA>>

\* the bytes of record z of the leaves file, as the format lays them out
ChildAt(z, k) ==
    leaves_packed[FmtStart(z) + 2 + 2 * k] * 256 + leaves_packed[FmtStart(z) + 3 + 2 * k]
\* bit k of the big-endian u64 m of '2' record z: m's byte 7 - k div 8
\* (counted from the first) holds it at bit k mod 8
MaskBit(z, k) == Bit(leaves_packed[FmtStart(z) + 5 + (8 - (k \div 8))], k % 8)
\* cell c = row * 8 + column of 'P' record z
CellAt(z, c) ==
    leaves_packed[FmtStart(z) + 2 + 2 * c] * 256 + leaves_packed[FmtStart(z) + 3 + 2 * c]
PixelCell == (qy % 8) * 8 + (qx % 8)

\* C7: a OneBitTile read from a '2' record with bitmask m selects children[1]
\* at pixel (x, y) exactly when bit (y & 7) * 8 + (x & 7) of m is set, else
\* children[0], and resolves that child at the same pixel.
C7_OneBitSelection ==
    [][(q_pc = "zone_lookup" /\ Zone.kind = "OneBitTile" /\ depth < MaxDepth) =>
         LET child == ChildAt(zidx, MaskBit(zidx, PixelCell))
         IN IF child < NUM_LEAVES
            THEN q_pc' = "zone_lookup" /\ zidx' = child /\ qx' = qx /\ qy' = qy
            ELSE q_pc' = "panicked"]_vars

\* children[1] of the tile at leaf 0 was selected at a pixel whose mirrored
\* bit is clear
C7_Witness ==
    /\ q_pc = "zone_lookup"
    /\ depth = 2
    /\ leaves[1].kind = "OneBitTile"
    /\ MaskBit(0, PixelCell) = 1
    /\ MaskBit(0, (qx % 8) * 8 + (qy % 8)) = 0
    /\ ChildAt(0, 0) # ChildAt(0, 1)
    /\ zidx = ChildAt(0, 1)

\* C8: a Pixmap at pixel (x, y) reads the big-endian u16 of cell
\* (row y & 7, column x & 7); 0xFFFF is the answer "no timezone" with no other
\* leaf read, any other value is the leaf resolved next at the same pixel.
C8_PixmapCell ==
    [][(q_pc = "zone_lookup" /\ Zone.kind = "Pixmap" /\ depth < MaxDepth) =>
         LET v == CellAt(zidx, PixelCell)
         IN /\ Zone.p[2 * PixelCell] = v \div 256
            /\ Zone.p[2 * PixelCell + 1] = v % 256
            /\ IF v = 65535
               THEN /\ q_pc' = "returned"
                    /\ zl_ret' = << <<>> >>
                    /\ ret' = <<>>
                    /\ depth' = depth
                    /\ zidx' = zidx
               ELSE IF v < NUM_LEAVES
               THEN q_pc' = "zone_lookup" /\ zidx' = v /\ qx' = qx /\ qy' = qy
               ELSE q_pc' = "panicked"]_vars

\* a Pixmap answered "no timezone" at a cell whose mirrored cell holds a leaf
C8_Witness ==
    /\ q_pc = "returned"
    /\ zl_ret = << <<>> >>
    /\ leaves[zidx + 1].kind = "Pixmap"
    /\ CellAt(zidx, PixelCell) = OCEAN_INDEX
    /\ CellAt(zidx, (qx % 8) * 8 + (qy % 8)) < NUM_LEAVES

\* C3, as stated: tables that hold an out-of-range leaf index never load.
C3_LoadRejectsBadIndex == ~(Loaded /\ ~ValidRefs)

\* the panics of TzSearch::new
LoadPanics ==
    { "assertion failed: slurp.len() % 6 == 0", "UnexpectedEof", "FromUtf8Error",
      "unknown leaf type" }

\* C3, amended: TzSearch::new checks no leaf index.  It panics only on a zoom
\* table whose length is no multiple of 6, a read past the end of the stream,
\* an unknown tag or a name that is not UTF-8; tables with an out-of-range
\* index load, and the query that follows such an index panics with an index
\* out of bounds.  zone_lookup is never entered on an index out of range.
C3_BadIndexDeferred ==
    /\ new_pc = "panicked" => panic_msg \in LoadPanics
    /\ q_pc = "zone_lookup" => zidx \in LeafIds
    /\ q_pc = "panicked" =>
         /\ Loaded
         /\ panic_msg = "index out of bounds"
         /\ IF depth = 0 THEN KeyLeaf(level) \notin LeafIds
            ELSE ~(Refs(zidx) \subseteq LeafIds)

\* the tables loaded and a query panicked on a leaf's out-of-range reference
C3_Witness ==
    /\ Loaded
    /\ q_pc = "panicked"
    /\ depth >= 1
    /\ ~(Refs(zidx) \subseteq LeafIds)

\* the read loop of the 'P' arm at the end of the stream: every read returns
\* 0 and the loop condition stays true
Spinning == new_pc = "pixmap" /\ buf_i < PixmapLen /\ rpos = Len(leaves_packed)

\* C4: when the leaves stream ends before NUM_LEAVES complete records,
\* TzSearch::new neither returns an index nor runs forever.
C4_TruncatedLoadFails == Truncated => (new_pc # "done" /\ ~Spinning)

\* ------------------------------------------------------ TzSearch::lookup
\* An f64 argument is a multiple of 1/GeoScale degree (binary fractions, on
\* which the f64 sums and products below are exact), NaN or an infinity.
GeoScale == 2 * DEG_PIXELS
Num(n) == [k |-> "num", v |-> n]
NaN == [k |-> "nan", v |-> 0]
PosInf == [k |-> "inf", v |-> 1]
NegInf == [k |-> "inf", v |-> -1]
Deg(d) == d * GeoScale
Around(c) == { Num(c + d) : d \in (0 - GeoWindow)..GeoWindow }
LatInputs == Around(Deg(-90)) \cup Around(0) \cup Around(Deg(90)) \cup {NaN, PosInf, NegInf}
LongInputs == Around(Deg(-180)) \cup Around(0) \cup Around(Deg(180)) \cup {NaN, PosInf, NegInf}

\* lo <= f && f <= hi on f64, lo and hi finite (in degrees): false for NaN
\* and for the infinities
LongInRangeLowerOnly(f, lo, hi) == (f.k = "num" /\ Deg(lo) <= f.v) \/ f = PosInf
F64Within(f, lo, hi) == f.k = "num" /\ Deg(lo) <= f.v /\ f.v <= Deg(hi)
LatInRange(f, lo, hi) == F64Within(f, lo, hi)
LongInRange(f, lo, hi) == F64Within(f, lo, hi)

\* (n / d) as isize for a finite quotient: the fraction is dropped
TruncDiv(n, d) == IF n >= 0 THEN n \div d ELSE 0 - ((0 - n) \div d)
\* ((f + off) * DEG_PIXELS) as isize, off in degrees; NaN casts to 0 and an
\* infinity saturates (any value past the clamp's limits gives the same x, y)
ToPixel(f, off) ==
    IF f.k = "num" THEN TruncDiv((f.v + Deg(off)) * DEG_PIXELS, GeoScale)
    ELSE IF f.k = "nan" THEN 0
    ELSE f.v * Pow2(30)
\* ((lim - f) * DEG_PIXELS) as isize
ToPixelFrom(lim, f) ==
    IF f.k = "num" THEN TruncDiv((Deg(lim) - f.v) * DEG_PIXELS, GeoScale)
    ELSE IF f.k = "nan" THEN 0
    ELSE (0 - f.v) * Pow2(30)
\* fn clamp(x: isize, lim: isize) -> usize
Clamp(x, lim) == Max(0, Min(lim * DEG_PIXELS, x))

GeoFrame == UNCHANGED <<loadVars, queryVars, onceVars>>

\* s.lookup(lat, long) is called
GeoLookup ==
    /\ g_pc \in {"idle", "lookup_pixel"}
    /\ \E la \in LatInputs, lo \in LongInputs :
         /\ lat' = la
         /\ long' = lo
    /\ g_pc' = "assert_lat"
    /\ gx' = <<>>
    /\ gy' = <<>>
    /\ UNCHANGED panic_msg
    /\ GeoFrame

\* assert!(-90.0 <= lat && lat <= 90.0)
GeoAssertLat ==
    /\ g_pc = "assert_lat"
    /\ IF LatInRange(lat, -90, 90)
       THEN g_pc' = "assert_long" /\ UNCHANGED panic_msg
       ELSE g_pc' = "panicked" /\ panic_msg' = "assertion failed: -90.0 <= lat && lat <= 90.0"
    /\ UNCHANGED <<lat, long, gx, gy>>
    /\ GeoFrame

\* assert!(-180.0 <= long && long <= 180.0)
GeoAssertLong ==
    /\ g_pc = "assert_long"
    /\ IF LongInRange(long, -180, 180)
       THEN g_pc' = "convert" /\ UNCHANGED panic_msg
       ELSE g_pc' = "panicked" /\ panic_msg' = "assertion failed: -180.0 <= long && long <= 180.0"
    /\ UNCHANGED <<lat, long, gx, gy>>
    /\ GeoFrame

\* let x = ((long + 180.0) * DEG_PIXELS) as isize; let y = ((90.0 - lat) * ..
GeoConvert ==
    /\ g_pc = "convert"
    /\ gx' = <<ToPixel(long, 180)>>
    /\ gy' = <<ToPixelFrom(90, lat)>>
    /\ g_pc' = "clamp"
    /\ UNCHANGED <<lat, long, panic_msg>>
    /\ GeoFrame

\* let x = clamp(x, 360); let y = clamp(y, 180); self.lookup_pixel(x, y)
GeoClamp ==
    /\ g_pc = "clamp"
    /\ gx' = <<Clamp(gx[1], 360)>>
    /\ gy' = <<Clamp(gy[1], 180)>>
    /\ g_pc' = "lookup_pixel"
    /\ UNCHANGED <<lat, long, panic_msg>>
    /\ GeoFrame

InitGeo ==
    /\ LoadIdle
    /\ QueryIdle
    /\ panic_msg = ""
    /\ g_pc = "idle"
    /\ lat = Num(0)
    /\ long = Num(0)
    /\ gx = <<>>
    /\ gy = <<>>
    /\ OnceIdle

NextGeo ==
    \/ GeoLookup
    \/ GeoAssertLat
    \/ GeoAssertLong
    \/ GeoConvert
    \/ GeoClamp

SpecGeo == InitGeo /\ [][NextGeo]_vars

\* the geographic range of the contract
GeoValid == /\ lat.k = "num" /\ Deg(-90) <= lat.v /\ lat.v <= Deg(90)
            /\ long.k = "num" /\ Deg(-180) <= long.v /\ long.v <= Deg(180)

\* C2: for lat in [-90, 90] and lon in [-180, 180] the pixel handed to
\* lookup_pixel has 0 <= x < 360 * DEG_PIXELS and 0 <= y < 180 * DEG_PIXELS;
\* lon = 180 gives the last column and lat = -90 the last row.
C2_PixelInGrid ==
    (g_pc = "lookup_pixel" /\ GeoValid) =>
        /\ 0 <= gx[1] /\ gx[1] < 360 * DEG_PIXELS
        /\ 0 <= gy[1] /\ gy[1] < 180 * DEG_PIXELS
        /\ long = Num(Deg(180)) => gx[1] = 360 * DEG_PIXELS - 1
        /\ lat = Num(Deg(-90)) => gy[1] = 180 * DEG_PIXELS - 1

\* C5: with lat outside [-90, 90] or long outside [-180, 180] (NaN included)
\* TzSearch::lookup computes no pixel and calls no lookup_pixel: it is at
\* its assertions or has panicked.
C5_RejectsOutOfRange ==
    ~GeoValid =>
        /\ g_pc \in {"assert_lat", "assert_long", "panicked"}
        /\ gx = <<>>
        /\ gy = <<>>

\* a latitude in range with a longitude just past 180 was rejected
C5_Witness ==
    /\ g_pc = "panicked"
    /\ lat.k = "num" /\ Deg(-90) <= lat.v /\ lat.v <= Deg(90)
    /\ long = Num(Deg(180) + 1)
    /\ gx = <<>>

\* --------------------------------------------- the free function lookup
\* NumThreads callers of lookup(lat, lon).  ONCE is std::sync::Once: one
\* caller runs the closure, the others wait until it has returned, and the
\* closure's writes happen-before every return of call_once; a closure that
\* panics poisons ONCE and later calls of call_once panic.  SHARED is read
\* and written Relaxed: a load that no happens-before orders after the store
\* may still return the initial 0.
Threads == 1..NumThreads
OnceFrame == UNCHANGED <<loadVars, queryVars, panic_msg, geoVars>>

\* OnceDone with a fault: a caller goes on as soon as the closure has started
OnceStarted == once \in {"RUNNING", "COMPLETE"}
\* call_once returns without running the closure
OnceDone == once = "COMPLETE"

\* lookup(lat, lon) is called
Call(t) ==
    /\ t_pc[t] \in {"idle", "done"}
    /\ t_pc' = [t_pc EXCEPT ![t] = "call_once"]
    /\ t_ptr' = [t_ptr EXCEPT ![t] = 0]
    /\ UNCHANGED <<once, shared, box_built, new_calls, t_sync>>
    /\ OnceFrame

\* ONCE.call_once: this caller is the one that runs the closure
OnceRun(t) ==
    /\ t_pc[t] = "call_once"
    /\ once = "INCOMPLETE"
    /\ once' = "RUNNING"
    /\ t_pc' = [t_pc EXCEPT ![t] = "new"]
    /\ UNCHANGED <<shared, box_built, new_calls, t_ptr, t_sync>>
    /\ OnceFrame

\* ONCE.call_once returns for a caller that did not run the closure
OncePass(t) ==
    /\ t_pc[t] = "call_once"
    /\ OnceDone
    /\ t_pc' = [t_pc EXCEPT ![t] = "load"]
    /\ t_sync' = [t_sync EXCEPT ![t] = t_sync[t] \/ once = "COMPLETE"]
    /\ UNCHANGED <<once, shared, box_built, new_calls, t_ptr>>
    /\ OnceFrame

\* ONCE.call_once on a poisoned ONCE panics
OncePoisoned(t) ==
    /\ t_pc[t] = "call_once"
    /\ once = "POISONED"
    /\ t_pc' = [t_pc EXCEPT ![t] = "panicked"]
    /\ UNCHANGED <<once, shared, box_built, new_calls, t_ptr, t_sync>>
    /\ OnceFrame

\* let s = Box::new(TzSearch::new())
ClosureNew(t) ==
    /\ t_pc[t] = "new"
    /\ new_calls' = new_calls + 1
    /\ box_built' = TRUE
    /\ t_pc' = [t_pc EXCEPT ![t] = "store"]
    /\ UNCHANGED <<once, shared, t_ptr, t_sync>>
    /\ OnceFrame

\* TzSearch::new() panics (a corrupt table): the closure unwinds
ClosureNewPanics(t) ==
    /\ t_pc[t] = "new"
    /\ new_calls' = new_calls + 1
    /\ once' = "POISONED"
    /\ t_pc' = [t_pc EXCEPT ![t] = "panicked"]
    /\ UNCHANGED <<shared, box_built, t_ptr, t_sync>>
    /\ OnceFrame

\* SHARED.store(transmute(s), Relaxed)
ClosureStore(t) ==
    /\ t_pc[t] = "store"
    /\ shared' = 1
    /\ t_sync' = [t_sync EXCEPT ![t] = TRUE]
    /\ t_pc' = [t_pc EXCEPT ![t] = "closure_end"]
    /\ UNCHANGED <<once, box_built, new_calls, t_ptr>>
    /\ OnceFrame

\* the closure returns and call_once with it
ClosureEnd(t) ==
    /\ t_pc[t] = "closure_end"
    /\ once' = "COMPLETE"
    /\ t_pc' = [t_pc EXCEPT ![t] = "load"]
    /\ UNCHANGED <<shared, box_built, new_calls, t_ptr, t_sync>>
    /\ OnceFrame

\* let ptr = SHARED.load(Relaxed)
Load(t) ==
    /\ t_pc[t] = "load"
    /\ \E v \in (IF t_sync[t] THEN {shared} ELSE {0, shared}) :
         t_ptr' = [t_ptr EXCEPT ![t] = v]
    /\ t_pc' = [t_pc EXCEPT ![t] = "assert"]
    /\ UNCHANGED <<once, shared, box_built, new_calls, t_sync>>
    /\ OnceFrame

\* assert!(ptr != 0); then s.lookup(lat, lon) on &*(ptr as *const TzSearch)
AssertAndLookup(t) ==
    /\ t_pc[t] = "assert"
    /\ t_pc' = [t_pc EXCEPT ![t] = IF t_ptr[t] # 0 THEN "done" ELSE "panicked"]
    /\ UNCHANGED <<once, shared, box_built, new_calls, t_ptr, t_sync>>
    /\ OnceFrame

InitOnce ==
    /\ LoadIdle
    /\ QueryIdle
    /\ panic_msg = ""
    /\ GeoIdle
    /\ once = "INCOMPLETE"
    /\ shared = 0
    /\ box_built = FALSE
    /\ new_calls = 0
    /\ t_pc = [t \in Threads |-> "idle"]
    /\ t_ptr = [t \in Threads |-> 0]
    /\ t_sync = [t \in Threads |-> FALSE]

NextOnce ==
    \E t \in Threads :
        \/ Call(t)
        \/ OnceRun(t)
        \/ OncePass(t)
        \/ OncePoisoned(t)
        \/ ClosureNew(t)
        \/ ClosureNewPanics(t)
        \/ ClosureStore(t)
        \/ ClosureEnd(t)
        \/ Load(t)
        \/ AssertAndLookup(t)

SpecOnce == InitOnce /\ [][NextOnce]_vars

\* C6: TzSearch::new runs at most once; every caller that loads SHARED reads
\* the address of the fully constructed index, so its assert holds and it
\* queries that index; a caller panics only on a poisoned ONCE.
C6_BuiltOnce ==
    /\ new_calls <= 1
    /\ \A t \in Threads :
         /\ t_pc[t] \in {"assert", "done"} => (t_ptr[t] = 1 /\ shared = 1 /\ box_built)
         /\ t_pc[t] = "load" => (shared = 1 /\ box_built /\ t_sync[t])
         /\ t_pc[t] = "panicked" => once = "POISONED"

\* two callers have finished their lookup on the index a single new() built
C6_Witness ==
    /\ new_calls = 1
    /\ \E t, u \in Threads :
         /\ t # u
         /\ t_pc[t] = "done" /\ t_ptr[t] = 1
         /\ t_pc[u] = "done" /\ t_ptr[u] = 1
====
